---- MODULE Spec2Model ----
(***************************************************************************)
(* Convolutional FEC codec facade of liquid-dsp (src/fec/src/fec_conv.c):  *)
(* fec_conv_create, fec_conv_destroy, fec_conv_encode, fec_conv_decode and *)
(* fec_conv_setlength, together with the heap blocks they own and the      *)
(* Viterbi decoder objects they drive, as built with HAVE_FEC_H == 1.      *)
(*                                                                         *)
(* The Viterbi core, liquid_unpack_bytes, parity, fec_get_enc_msg_length   *)
(* and the generator polynomial tables are not part of fec_conv.c; they    *)
(* are modelled from the design specification (sections 3, 4.2, 4.3, 6).   *)
(***************************************************************************)
EXTENDS Integers, Sequences, FiniteSets, TLC

(***************************************************************************)
(* Bounds of the model.                                                    *)
(***************************************************************************)
\* longest decoded message, in bytes
MaxLen == 2

\* byte values a caller puts in a decoded message (neither is a bit palindrome)
ByteVals == {29, 200}

\* values an uninitialised unsigned int (num_enc_bytes after create) may hold
GarbageVals == {0, 5}

\* addresses create_viterbi can return
VpIds == {1, 2}

(***************************************************************************)
(* Scheme table.                                                           *)
(***************************************************************************)
Schemes == {"FEC_CONV_V27", "FEC_CONV_V29", "FEC_CONV_V39", "FEC_CONV_V615"}

\* scheme ids that are not convolutional codes of this file
BadSchemes == {"FEC_UNKNOWN", "FEC_HAMMING74"}

fec_conv27_poly == <<109, 79>>

fec_conv29_poly == <<431, 285>>

fec_conv39_poly == <<493, 411, 295>>

fec_conv615_poly == <<17817, 20133, 23879, 30451, 32439, 26975>>

fec_conv_init_v27 == [R |-> 2, K |-> 7, poly |-> fec_conv27_poly]

fec_conv_init_v29 == [R |-> 2, K |-> 9, poly |-> fec_conv29_poly]

fec_conv_init_v39 == [R |-> 3, K |-> 9, poly |-> fec_conv39_poly]

fec_conv_init_v615 == [R |-> 6, K |-> 15, poly |-> fec_conv615_poly]

\* the switch of fec_conv_create
SchemeInit(fs) ==
    CASE fs = "FEC_CONV_V27"  -> fec_conv_init_v27
      [] fs = "FEC_CONV_V29"  -> fec_conv_init_v29
      [] fs = "FEC_CONV_V39"  -> fec_conv_init_v39
      [] fs = "FEC_CONV_V615" -> fec_conv_init_v615

\* encoded length in bytes: ceil(R*(8n + K - 1)/8)
fec_get_enc_msg_length(fs, nbytes) ==
    LET sc == SchemeInit(fs)
    IN (sc.R * (8 * nbytes + sc.K - 1) + 7) \div 8

(***************************************************************************)
(* Bit arithmetic.                                                         *)
(***************************************************************************)
BitAt(a, i) == (a \div (2^i)) % 2

RECURSIVE BitAnd(_, _)
BitAnd(a, b) ==
    IF a = 0 \/ b = 0 THEN 0
    ELSE (a % 2) * (b % 2) + 2 * BitAnd(a \div 2, b \div 2)

\* XOR-reduction of the bits of a
RECURSIVE parity(_)
parity(a) == IF a = 0 THEN 0 ELSE ((a % 2) + parity(a \div 2)) % 2

(***************************************************************************)
(* Caller-side buffers.                                                    *)
(***************************************************************************)
\* a byte of a caller buffer that the codec has not written
Unwritten == -1

\* capacity of the caller's encoded-message buffer (one byte of slack)
EncCap == 6 * MaxLen + 12

RECURSIVE SeqsUpTo(_, _)
SeqsUpTo(S, n) ==
    IF n = 0 THEN {<<>>}
    ELSE LET shorter == SeqsUpTo(S, n - 1)
         IN shorter \cup {Append(m, b) : m \in {w \in shorter : Len(w) = n - 1}, b \in S}

Messages == SeqsUpTo(ByteVals, MaxLen)

FreshEncBuf == [i \in 1..EncCap |-> Unwritten]

(***************************************************************************)
(* fec_conv_encode.  The 32-bit shift register sr is kept as two 16-bit    *)
(* halves; byte_out is an unsigned char.                                   *)
(***************************************************************************)
\* faulty variant of InBit: least significant bit first
InBitLsb(byte_in, j) == (byte_in \div (2^j)) % 2

\* bit j (0..7) of an input byte, most significant first (line 92)
InBit(byte_in, j) == (byte_in \div (2^(7 - j))) % 2

\* sr = (sr << 1) | bit
SrPush(sr, bit) ==
    [hi |-> (sr.hi * 2 + (sr.lo \div 32768)) % 65536,
     lo |-> (sr.lo * 2 + bit) % 65536]

\* faulty variant of TailSteps: one flush step too many
TailStepsK(qq) == qq.K

\* number of tail steps (line 105)
TailSteps(qq) == qq.K - 1

\* the parity loop over the R polynomials (lines 96-100 and 110-114);
\* e holds the locals of fec_conv_encode and the output buffer
RECURSIVE EncParityLoop(_, _)
EncParityLoop(e, qq) ==
    IF e.r >= qq.R THEN e
    ELSE LET bo == ((e.byte_out * 2) % 256) + parity(BitAnd(e.sr.lo, qq.poly[e.r + 1]))
         IN EncParityLoop([e EXCEPT !.byte_out = bo,
                                    !.out[(e.n \div 8) + 1] = bo,
                                    !.n = e.n + 1,
                                    !.r = e.r + 1], qq)

\* the loop over the 8 bits of one input byte (lines 90-101)
RECURSIVE EncBitLoop(_, _, _)
EncBitLoop(e, qq, byte_in) ==
    IF e.j >= 8 THEN e
    ELSE LET pushed == [e EXCEPT !.sr = SrPush(e.sr, InBit(byte_in, e.j)), !.r = 0]
         IN EncBitLoop([EncParityLoop(pushed, qq) EXCEPT !.j = e.j + 1], qq, byte_in)

\* the loop over the input bytes (lines 86-102)
RECURSIVE EncByteLoop(_, _, _)
EncByteLoop(e, qq, msg) ==
    IF e.i >= Len(msg) THEN e
    ELSE EncByteLoop([EncBitLoop([e EXCEPT !.j = 0], qq, msg[e.i + 1]) EXCEPT !.i = e.i + 1],
                     qq, msg)

\* the tail loop (lines 105-115)
RECURSIVE EncTailLoop(_, _)
EncTailLoop(e, qq) ==
    IF e.i >= TailSteps(qq) THEN e
    ELSE LET pushed == [e EXCEPT !.sr = SrPush(e.sr, 0), !.r = 0]
         IN EncTailLoop([EncParityLoop(pushed, qq) EXCEPT !.i = e.i + 1], qq)

\* the padding loop (lines 118-123)
RECURSIVE EncPadLoop(_)
EncPadLoop(e) ==
    IF e.n % 8 = 0 THEN e
    ELSE LET bo == (e.byte_out * 2) % 256
         IN EncPadLoop([e EXCEPT !.byte_out = bo,
                                 !.out[(e.n \div 8) + 1] = bo,
                                 !.n = e.n + 1])

\* the whole body of fec_conv_encode: the output buffer, the final bit
\* counter, the bit counter before padding and the value of the closing
\* assertion (line 125)
EncodeRun(qq, msg, buf) ==
    LET e0 == [i |-> 0, j |-> 0, r |-> 0, sr |-> [hi |-> 0, lo |-> 0], n |-> 0,
               byte_out |-> 0, out |-> buf]
        e1 == EncByteLoop(e0, qq, msg)
        e2 == EncTailLoop([e1 EXCEPT !.i = 0], qq)
        e3 == EncPadLoop(e2)
    IN [out |-> e3.out, n |-> e3.n, ncode |-> e2.n,
        assert_ok |-> (e3.n = 8 * fec_get_enc_msg_length(qq.scheme, Len(msg)))]

(***************************************************************************)
(* Hard-decision symbols and liquid_unpack_bytes.                          *)
(***************************************************************************)
FEC_SOFTBIT_0 == 0

FEC_SOFTBIT_1 == 255

\* faulty variant of SoftBit: the unpacked bit is left unscaled
SoftBitRaw(b) == b

\* line 159: enc_bits[k] ? FEC_SOFTBIT_1 : FEC_SOFTBIT_0
SoftBit(b) == IF b # 0 THEN FEC_SOFTBIT_1 ELSE FEC_SOFTBIT_0

\* the decoder's reading of one received symbol
HardBit(sym) == IF 2 * sym > FEC_SOFTBIT_0 + FEC_SOFTBIT_1 THEN 1 ELSE 0

\* liquid_unpack_bytes with one bit per output symbol: bit k (1-based) of the
\* unpacked stream, most significant bit of each byte first
UnpackBit(bytes, k) == (bytes[((k - 1) \div 8) + 1] \div (2^(7 - ((k - 1) % 8)))) % 2

(***************************************************************************)
(* Trellis / branch-metric model and Viterbi decoder (design sections 4.2  *)
(* and 4.3).  A trellis state is the K-1 most recent input bits, newest in *)
(* the least significant position; a branch is named by the K-bit register *)
(* value reg = state after the push, plus 2^(K-1) times the bit shifted    *)
(* out.  A symbol group is an integer of R bits, first polynomial first.   *)
(***************************************************************************)
RECURSIVE BranchOut(_, _, _)
BranchOut(sc, reg, r) ==
    IF r > sc.R THEN 0
    ELSE parity(BitAnd(reg, sc.poly[r])) * (2^(sc.R - r)) + BranchOut(sc, reg, r + 1)

\* bitwise exclusive or
RECURSIVE BitXor(_, _)
BitXor(a, b) ==
    IF a = 0 /\ b = 0 THEN 0
    ELSE ((a + b) % 2) + 2 * BitXor(a \div 2, b \div 2)

\* The branch outputs of all register values below 2^k.  The parity of
\* (reg AND poly) is the exclusive or, over the bits set in reg, of the
\* outputs of the registers holding that one bit, so the table of 2^(k+1)
\* values is the table of 2^k values followed by the same values with the
\* output of register 2^k mixed in.
RECURSIVE BranchTabUpTo(_, _)
BranchTabUpTo(sc, k) ==
    IF k = 0 THEN <<0>>
    ELSE LET half == BranchTabUpTo(sc, k - 1)
             col  == BranchOut(sc, 2^(k - 1), 1)
         IN half \o [i \in 1..Len(half) |-> BitXor(half[i], col)]

BranchTab27 == BranchTabUpTo(fec_conv_init_v27, 7)

BranchTab29 == BranchTabUpTo(fec_conv_init_v29, 9)

BranchTab39 == BranchTabUpTo(fec_conv_init_v39, 9)

BranchTab615 == BranchTabUpTo(fec_conv_init_v615, 15)

\* branch metric: number of symbols of the group that differ
RECURSIVE GroupDist(_, _)
GroupDist(a, b) ==
    IF a = 0 /\ b = 0 THEN 0
    ELSE (IF (a % 2) # (b % 2) THEN 1 ELSE 0) + GroupDist(a \div 2, b \div 2)

DistTab == [a \in 1..64 |-> [b \in 1..64 |-> GroupDist(a - 1, b - 1)] \o <<>>] \o <<>>

Max2(a, b) == IF a > b THEN a ELSE b

Min2(a, b) == IF a < b THEN a ELSE b

\* One update step at time t (1-based) for received group sym.  Only the
\* states that lie on a path from start state 0 to terminal state 0 are
\* kept: those below 2^t whose low t-nbits bits are zero.  An entry is
\* 2*metric + decision, decision 1 meaning the predecessor with the oldest
\* bit set won; ties keep the predecessor with that bit clear.
VitStep(prev, t, sym, nbits, kk, tab) ==
    LET z    == 2^Max2(0, t - nbits)
        w    == Min2(t, kk - 1)
        zp   == 2^Max2(0, t - 1 - nbits)
        wp   == 2^Min2(t - 1, kk - 1)
        half == 2^(kk - 2)
        drow == DistTab[sym + 1]
    IN [k \in 1..((2^w) \div z) |->
          LET s  == (k - 1) * z
              p0 == s \div 2
              p1 == p0 + half
              m0 == (prev[(p0 \div zp) + 1] \div 2) + drow[tab[s + 1] + 1]
          IN IF p1 < wp
             THEN LET m1 == (prev[(p1 \div zp) + 1] \div 2)
                                + drow[tab[s + 2 * half + 1] + 1]
                  IN IF m1 < m0 THEN 2 * m1 + 1 ELSE 2 * m0
             ELSE 2 * m0] \o <<>>

\* reset (metric 0 on state 0) followed by one update per received group;
\* the result is the survivor memory, one table per time step
RECURSIVE VitUpdate(_, _, _, _, _, _, _)
VitUpdate(prev, t, rx, nbits, kk, tab, surv) ==
    IF t > Len(rx) THEN surv
    ELSE LET st == VitStep(prev, t, rx[t], nbits, kk, tab)
         IN VitUpdate(st, t + 1, rx, nbits, kk, tab, Append(surv, st))

\* chainback: walk the survivor memory backwards from state s at time t; the
\* decoded bit of a step is the input bit of the branch taken into the state
RECURSIVE VitChain(_, _, _, _, _, _)
VitChain(surv, t, s, nbits, kk, acc) ==
    IF t = 0 THEN acc
    ELSE LET z   == 2^Max2(0, t - nbits)
             dec == surv[t][(s \div z) + 1] % 2
         IN VitChain(surv, t - 1, (s \div 2) + dec * (2^(kk - 2)), nbits, kk,
                     <<s % 2>> \o acc)

\* bits 8(i-1)+1 .. 8i of a bit sequence packed most significant bit first
PackByte(bits, i) ==
    bits[8*i - 7] * 128 + bits[8*i - 6] * 64 + bits[8*i - 5] * 32 + bits[8*i - 4] * 16
      + bits[8*i - 3] * 8 + bits[8*i - 2] * 4 + bits[8*i - 1] * 2 + bits[8*i]

\* the decoded bytes for a decoder that was reset to state 0, updated with
\* the groups rx (nbits + K - 1 of them) and chained back from state 0
ViterbiDecode(sc, tab, rx, nbits) ==
    LET surv == VitUpdate(<<0>>, 1, rx, nbits, sc.K, tab, <<>>)
        bits == VitChain(surv, Len(rx), 0, nbits, sc.K, <<>>)
    IN [i \in 1..(nbits \div 8) |-> PackByte(bits, i)]

\* group g (1-based) of R received symbols as an integer
RECURSIVE RxGroup(_, _, _, _)
RxGroup(syms, rr, g, r) ==
    IF r > rr THEN 0
    ELSE HardBit(syms[rr * (g - 1) + r]) * (2^(rr - r)) + RxGroup(syms, rr, g, r + 1)

BranchTab(fs) ==
    CASE fs = "FEC_CONV_V27"  -> BranchTab27
      [] fs = "FEC_CONV_V29"  -> BranchTab29
      [] fs = "FEC_CONV_V39"  -> BranchTab39
      [] fs = "FEC_CONV_V615" -> BranchTab615

(***************************************************************************)
(* State.                                                                  *)
(***************************************************************************)
VARIABLES
    pc,          \* position of the calling program
    q,           \* the codec record (struct fec_s) behind the handle
    heap,        \* which of the codec's malloc blocks are allocated
    vp_objs,     \* the Viterbi decoder objects, by address
    enc_blk,     \* contents of the block q.enc_bits points to
    msg_dec,     \* caller: decoded message handed to fec_conv_encode
    msg_enc,     \* caller: encoded message buffer
    msg_out,     \* caller: output buffer of fec_conv_decode
    dec_len,     \* _dec_msg_len of the current or last fec_conv_decode
    enc_ret,     \* bit counters and assertion value of the last fec_conv_encode
    calls,       \* Viterbi calls made by the current or last fec_conv_decode
    sizing,      \* what fec_conv_setlength did in the current decode call
    pre,         \* codec memory as it was when the current decode call began
    lastop,      \* last operation that returned
    fault,       \* first memory or protocol fault that occurred
    create_ret   \* outcome of fec_conv_create

vars == <<pc, q, heap, vp_objs, enc_blk, msg_dec, msg_enc, msg_out, dec_len,
          enc_ret, calls, sizing, pre, lastop, fault, create_ret>>

NULL == 0

\* an entry of a malloc block that has not been written
Uninit == -2

NoCodec == [scheme |-> "none", R |-> 0, K |-> 0, poly |-> <<>>,
            num_dec_bytes |-> 0, num_enc_bytes |-> 0, vp |-> NULL, enc_bits |-> NULL]

DeadVp == [live |-> FALSE, nbits |-> 0, phase |-> "Uninitialized", rx |-> <<>>]

NoSizing == [deleted |-> FALSE, created |-> FALSE, realloced |-> FALSE]

NoPre == [valid |-> FALSE, q |-> NoCodec, enc_blk |-> <<>>,
          vp_objs |-> [id \in VpIds |-> DeadVp]]

Init ==
    /\ pc = "start"
    /\ q = NoCodec
    /\ heap = [q |-> FALSE, enc_bits |-> FALSE]
    /\ vp_objs = [id \in VpIds |-> DeadVp]
    /\ enc_blk = <<>>
    /\ msg_dec = <<>>
    /\ msg_enc = FreshEncBuf
    /\ msg_out = <<>>
    /\ dec_len = 0
    /\ enc_ret = [n |-> 0, ncode |-> 0, assert_ok |-> TRUE]
    /\ calls = <<>>
    /\ sizing = NoSizing
    /\ pre = NoPre
    /\ lastop = "none"
    /\ fault = "none"
    /\ create_ret = "none"

(***************************************************************************)
(* fec_conv_create                                                         *)
(***************************************************************************)
fec_conv_create(fs) ==
    /\ pc = "start"
    /\ heap' = [heap EXCEPT !.q = TRUE]
    /\ IF fs \in Schemes
       THEN /\ \E g \in GarbageVals :
                 q' = [scheme |-> fs, R |-> SchemeInit(fs).R, K |-> SchemeInit(fs).K,
                       poly |-> SchemeInit(fs).poly,
                       num_dec_bytes |-> 0, num_enc_bytes |-> g,
                       vp |-> NULL, enc_bits |-> NULL]
            /\ pc' = "idle"
            /\ create_ret' = "codec"
       ELSE /\ q' = [NoCodec EXCEPT !.scheme = fs]
            /\ pc' = "exited"
            /\ create_ret' = "exit"
    /\ lastop' = "create"
    /\ UNCHANGED <<vp_objs, enc_blk, msg_dec, msg_enc, msg_out, dec_len, enc_ret,
                   calls, sizing, pre, fault>>

(***************************************************************************)
(* fec_conv_destroy                                                        *)
(***************************************************************************)
delete_viterbi(objs, id) == [objs EXCEPT ![id] = DeadVp]

\* the blocks fec_conv_destroy releases besides the Viterbi decoder
DestroyFrees(hp) == [hp EXCEPT !.q = FALSE]

fec_conv_destroy ==
    /\ pc = "idle"
    /\ IF q.vp # NULL
       THEN /\ vp_objs' = delete_viterbi(vp_objs, q.vp)
            /\ fault' = IF fault = "none" /\ ~vp_objs[q.vp].live
                        THEN "double_free" ELSE fault
       ELSE UNCHANGED <<vp_objs, fault>>
    /\ heap' = DestroyFrees(heap)
    /\ pc' = "destroyed"
    /\ lastop' = "destroy"
    /\ UNCHANGED <<q, enc_blk, msg_dec, msg_enc, msg_out, dec_len, enc_ret, calls,
                   sizing, pre, create_ret>>

(***************************************************************************)
(* fec_conv_encode                                                         *)
(***************************************************************************)
\* fec_conv_encode reads only scheme, R, K and poly of the codec, which
\* fec_conv_create sets and nothing changes; its result on a fresh output
\* buffer is tabulated once per scheme and message
EncodeTab ==
    LET f == [c \in Schemes \X Messages |->
                 EncodeRun([NoCodec EXCEPT !.scheme = c[1], !.R = SchemeInit(c[1]).R,
                                           !.K = SchemeInit(c[1]).K,
                                           !.poly = SchemeInit(c[1]).poly],
                           c[2], FreshEncBuf)]
    IN IF f = f THEN f ELSE f

fec_conv_encode(msg) ==
    /\ pc = "idle"
    /\ LET ret == EncodeTab[<<q.scheme, msg>>]
       IN /\ msg_enc' = ret.out
          /\ enc_ret' = [n |-> ret.n, ncode |-> ret.ncode, assert_ok |-> ret.assert_ok]
          /\ pc' = IF ret.assert_ok THEN "idle" ELSE "crashed"
          /\ fault' = IF fault = "none" /\ ~ret.assert_ok THEN "assert" ELSE fault
    /\ msg_dec' = msg
    /\ lastop' = "encode"
    /\ UNCHANGED <<q, heap, vp_objs, enc_blk, msg_out, dec_len, calls, sizing, pre,
                   create_ret>>

(***************************************************************************)
(* Decoding results, tabulated once.                                       *)
(***************************************************************************)
\* the symbol groups update_viterbi_blk reads in a decode of length n when
\* the caller's encoded buffer holds the encoding of message m (lines 139-163)
CleanRx(fs, m, n) ==
    LET sc   == SchemeInit(fs)
        enc  == EncodeTab[<<fs, m>>].out
        syms == [k \in 1..(8 * fec_get_enc_msg_length(fs, n)) |-> SoftBit(UnpackBit(enc, k))]
    IN [g \in 1..(8 * n + sc.K - 1) |-> RxGroup(syms, sc.R, g, 1)] \o <<>>

\* ViterbiDecode for every scheme and every sequence of symbol groups that a
\* decode of an encoded message, or of a prefix of it, hands to the decoder
ViterbiTab ==
    LET keys == UNION {{<<c[1], CleanRx(c[1], c[2], n)>> : n \in 0..Len(c[2])} :
                          c \in Schemes \X Messages}
        f == [key \in keys |->
                 LET sc == SchemeInit(key[1])
                 IN ViterbiDecode(sc, BranchTab(key[1]), key[2], Len(key[2]) - sc.K + 1)]
    IN IF f = f THEN f ELSE f

\* what chainback_viterbi writes after a reset and an update over rx: taken
\* from the table where rx is tabulated, computed otherwise
DecodedBytes(qq, rx) ==
    IF <<qq.scheme, rx>> \in DOMAIN ViterbiTab /\ Len(rx) = 8 * qq.num_dec_bytes + qq.K - 1
    THEN ViterbiTab[<<qq.scheme, rx>>]
    ELSE ViterbiDecode(qq, BranchTab(qq.scheme), rx, 8 * qq.num_dec_bytes)

(***************************************************************************)
(* fec_conv_setlength                                                      *)
(***************************************************************************)
\* faulty variant of LengthUnchanged: compares with the encoded length
LengthVsEncBytes(qq, n) == n = qq.num_enc_bytes

\* line 179: the length has not changed
LengthUnchanged(qq, n) == n = qq.num_dec_bytes

\* line 198: number of entries of the reallocated enc_bits
EncBitsSize(qq) == qq.num_enc_bytes * 8

\* realloc keeps the old entries that still fit
Realloc(blk, size) == [k \in 1..size |-> IF k <= Len(blk) THEN blk[k] ELSE Uninit]

\* the address malloc hands out: the lowest free one
FreeVpId(objs) == CHOOSE id \in VpIds : ~objs[id].live /\ \A o \in VpIds : o < id => objs[o].live

create_viterbi(objs, len) ==
    [objs EXCEPT ![FreeVpId(objs)] =
        [live |-> TRUE, nbits |-> len, phase |-> "Ready", rx |-> <<>>]]

\* the effect of fec_conv_setlength on the codec memory mm
SetLength(mm, n) ==
    IF LengthUnchanged(mm.q, n)
    THEN [mm EXCEPT !.sizing = NoSizing]
    ELSE LET q1    == [mm.q EXCEPT !.num_dec_bytes = n,
                                   !.num_enc_bytes = fec_get_enc_msg_length(mm.q.scheme, n)]
             del   == q1.vp # NULL
             objs1 == IF del THEN delete_viterbi(mm.vp_objs, q1.vp) ELSE mm.vp_objs
             newid == FreeVpId(objs1)
         IN [q       |-> [q1 EXCEPT !.vp = newid, !.enc_bits = 1],
             vp_objs |-> create_viterbi(objs1, 8 * q1.num_dec_bytes),
             enc_blk |-> Realloc(mm.enc_blk, EncBitsSize(q1)),
             heap    |-> [mm.heap EXCEPT !.enc_bits = TRUE],
             fault   |-> IF mm.fault = "none" /\ del /\ ~mm.vp_objs[q1.vp].live
                         THEN "double_free" ELSE mm.fault,
             sizing  |-> [deleted |-> del, created |-> TRUE, realloced |-> TRUE]]

(***************************************************************************)
(* fec_conv_decode, one action per statement.                              *)
(***************************************************************************)
\* entry and line 135: fec_conv_setlength(_q, _dec_msg_len).  The caller
\* passes an encoded buffer that holds at least the bytes of a message of
\* length n, and an output buffer of n bytes.
DecodeSetLength(n) ==
    /\ pc = "idle"
    /\ enc_ret.n >= 8 * fec_get_enc_msg_length(q.scheme, n)
    /\ LET mm == SetLength([q |-> q, vp_objs |-> vp_objs, enc_blk |-> enc_blk,
                            heap |-> heap, fault |-> fault, sizing |-> NoSizing], n)
       IN /\ q' = mm.q
          /\ vp_objs' = mm.vp_objs
          /\ enc_blk' = mm.enc_blk
          /\ heap' = mm.heap
          /\ fault' = mm.fault
          /\ sizing' = mm.sizing
    /\ pre' = [valid |-> TRUE, q |-> q, enc_blk |-> enc_blk, vp_objs |-> vp_objs]
    /\ dec_len' = n
    /\ msg_out' = [i \in 1..n |-> Unwritten]
    /\ calls' = <<>>
    /\ pc' = "dec_unpack"
    /\ UNCHANGED <<msg_dec, msg_enc, enc_ret, lastop, create_ret>>

\* lines 139-143: liquid_unpack_bytes into enc_bits
DecodeUnpack ==
    /\ pc = "dec_unpack"
    /\ sizing' = NoSizing
    /\ pre' = NoPre
    /\ IF q.enc_bits = NULL
       THEN /\ pc' = IF q.num_enc_bytes = 0 THEN "dec_scale" ELSE "crashed"
            /\ fault' = IF fault = "none" /\ q.num_enc_bytes # 0 THEN "null_write" ELSE fault
            /\ UNCHANGED enc_blk
       ELSE IF 8 * q.num_enc_bytes > Len(enc_blk)
            THEN /\ pc' = "crashed"
                 /\ fault' = IF fault = "none" THEN "heap_overflow" ELSE fault
                 /\ UNCHANGED enc_blk
            ELSE /\ pc' = "dec_scale"
                 /\ enc_blk' = [k \in 1..Len(enc_blk) |->
                                  IF k <= 8 * q.num_enc_bytes
                                  THEN UnpackBit(msg_enc, k) ELSE enc_blk[k]]
                 /\ UNCHANGED fault
    /\ UNCHANGED <<q, heap, vp_objs, msg_dec, msg_enc, msg_out, dec_len, enc_ret,
                   calls, lastop, create_ret>>

\* lines 157-159: hard-decision scaling
DecodeScale ==
    /\ pc = "dec_scale"
    /\ enc_blk' = [k \in 1..Len(enc_blk) |->
                     IF k <= 8 * q.num_enc_bytes THEN SoftBit(enc_blk[k]) ELSE enc_blk[k]]
    /\ pc' = "dec_init"
    /\ UNCHANGED <<q, heap, vp_objs, msg_dec, msg_enc, msg_out, dec_len, enc_ret,
                   calls, sizing, pre, lastop, fault, create_ret>>

\* line 162: init_viterbi(vp, 0).  With vp = NULL the library either fails
\* fast or returns an error code that the caller ignores.
DecodeInit ==
    /\ pc = "dec_init"
    /\ calls' = Append(calls, [fn |-> "init", vp |-> q.vp, a |-> 0, b |-> 0])
    /\ IF q.vp = NULL
       THEN /\ fault' = IF fault = "none" THEN "null_vp" ELSE fault
            /\ pc' \in {"crashed", "dec_update"}
            /\ UNCHANGED vp_objs
       ELSE /\ vp_objs' = [vp_objs EXCEPT ![q.vp].phase = "Ready", ![q.vp].rx = <<>>]
            /\ fault' = IF fault = "none" /\ ~vp_objs[q.vp].live
                        THEN "use_after_free" ELSE fault
            /\ pc' = "dec_update"
    /\ UNCHANGED <<q, heap, enc_blk, msg_dec, msg_enc, msg_out, dec_len, enc_ret,
                   sizing, pre, lastop, create_ret>>

\* number of symbol groups handed to update_viterbi_blk (line 163)
UpdateGroups(qq) == 8 * qq.num_dec_bytes + qq.K - 1

\* line 163: update_viterbi_blk(vp, enc_bits, 8*num_dec_bytes + K - 1)
DecodeUpdate ==
    /\ pc = "dec_update"
    /\ calls' = Append(calls, [fn |-> "update", vp |-> q.vp, a |-> UpdateGroups(q), b |-> 0])
    /\ IF q.vp = NULL
       THEN /\ pc' = "dec_chainback"
            /\ UNCHANGED <<vp_objs, fault>>
       ELSE IF q.R * UpdateGroups(q) > Len(enc_blk)
            THEN /\ pc' = "crashed"
                 /\ fault' = IF fault = "none" THEN "overread" ELSE fault
                 /\ UNCHANGED vp_objs
            ELSE /\ pc' = "dec_chainback"
                 /\ vp_objs' = [vp_objs EXCEPT
                        ![q.vp].phase = "Decoding",
                        ![q.vp].rx = [g \in 1..UpdateGroups(q) |-> RxGroup(enc_blk, q.R, g, 1)]]
                 /\ fault' = IF fault = "none" /\ vp_objs[q.vp].phase # "Ready"
                             THEN "not_reset" ELSE fault
    /\ UNCHANGED <<q, heap, enc_blk, msg_dec, msg_enc, msg_out, dec_len, enc_ret,
                   sizing, pre, lastop, create_ret>>

\* line 164: chainback_viterbi(vp, _msg_dec, 8*num_dec_bytes, 0), and return
DecodeChainback ==
    /\ pc = "dec_chainback"
    /\ calls' = Append(calls, [fn |-> "chainback", vp |-> q.vp,
                               a |-> 8 * q.num_dec_bytes, b |-> 0])
    /\ IF q.vp = NULL
       THEN UNCHANGED <<vp_objs, msg_out, fault>>
       ELSE /\ vp_objs' = [vp_objs EXCEPT ![q.vp].phase = "Terminated"]
            /\ msg_out' = DecodedBytes(q, vp_objs[q.vp].rx)
            /\ fault' = IF fault = "none" /\ vp_objs[q.vp].phase # "Decoding"
                        THEN "not_updated" ELSE fault
    /\ pc' = "idle"
    /\ lastop' = "decode"
    /\ UNCHANGED <<q, heap, enc_blk, msg_dec, msg_enc, dec_len, enc_ret, sizing, pre,
                   create_ret>>

Next ==
    \/ \E fs \in Schemes \cup BadSchemes : fec_conv_create(fs)
    \/ \E msg \in Messages : fec_conv_encode(msg)
    \/ \E n \in 0..MaxLen : DecodeSetLength(n)
    \/ DecodeUnpack
    \/ DecodeScale
    \/ DecodeInit
    \/ DecodeUpdate
    \/ DecodeChainback
    \/ fec_conv_destroy

Spec == Init /\ [][Next]_vars

(***************************************************************************)
(* Reference encoder of design section 4.1, written as a convolution over  *)
(* the message bits rather than as a shift register.                       *)
(***************************************************************************)
\* message bit t (1-based, most significant bit of each byte first); zero
\* before the message and in the flush tail
RefInBit(msg, t) ==
    IF t < 1 \/ t > 8 * Len(msg) THEN 0
    ELSE (msg[((t - 1) \div 8) + 1] \div (2^(7 - ((t - 1) % 8)))) % 2

\* sum over the taps i..K-1 of polynomial r at step t
RECURSIVE RefTaps(_, _, _, _, _)
RefTaps(sc, msg, t, r, i) ==
    IF i >= sc.K THEN 0
    ELSE BitAt(sc.poly[r], i) * RefInBit(msg, t - i) + RefTaps(sc, msg, t, r, i + 1)

\* number of code bits R*(8n + K - 1)
RefCodeBits(sc, msg) == sc.R * (8 * Len(msg) + sc.K - 1)

\* bit u (0-based) of the encoded stream, zero in the padding
RefStreamBit(sc, msg, u) ==
    IF u >= RefCodeBits(sc, msg) THEN 0
    ELSE RefTaps(sc, msg, (u \div sc.R) + 1, (u % sc.R) + 1, 0) % 2

RefByte(sc, msg, x) ==
    RefStreamBit(sc, msg, 8*x) * 128 + RefStreamBit(sc, msg, 8*x + 1) * 64
      + RefStreamBit(sc, msg, 8*x + 2) * 32 + RefStreamBit(sc, msg, 8*x + 3) * 16
      + RefStreamBit(sc, msg, 8*x + 4) * 8 + RefStreamBit(sc, msg, 8*x + 5) * 4
      + RefStreamBit(sc, msg, 8*x + 6) * 2 + RefStreamBit(sc, msg, 8*x + 7)

RefEncoded(sc, msg) ==
    [x \in 1..EncCap |->
        IF x <= (RefCodeBits(sc, msg) + 7) \div 8 THEN RefByte(sc, msg, x - 1)
        ELSE Unwritten]

RefTab ==
    LET f == [c \in Schemes \X Messages |-> RefEncoded(SchemeInit(c[1]), c[2])]
    IN IF f = f THEN f ELSE f

(***************************************************************************)
(* Vocabulary of the properties.                                           *)
(***************************************************************************)
\* fec_conv_encode has returned at least once on this codec
Encoded == enc_ret.n > 0

\* the last call that returned is a fec_conv_decode
DecodeReturned == pc = "idle" /\ lastop = "decode"

\* a fec_conv_decode call is between its sizing step and its return
InDecode == pc \in {"dec_unpack", "dec_scale", "dec_init", "dec_update", "dec_chainback"}

\* the process died inside fec_conv_decode
DecodeCrashed == pc = "crashed" /\ fault # "assert"

\* number of bytes of the caller's encoded buffer that have been written
RECURSIVE WrittenFrom(_, _)
WrittenFrom(buf, x) ==
    IF x > Len(buf) \/ buf[x] = Unwritten THEN 0 ELSE 1 + WrittenFrom(buf, x + 1)

\* the round trip holds on every decode that ran on an allocated decoder
RoundTripWhenSized ==
    (DecodeReturned /\ dec_len = Len(msg_dec) /\ q.vp # NULL) => msg_out = msg_dec

\* the only faults the codec can reach are those of a never-sized decode
FaultsAreUnsized == fault \in {"none", "null_write", "null_vp"}

\* the three Viterbi calls of a decode of n bytes on decoder id
CallInit(id) == [fn |-> "init", vp |-> id, a |-> 0, b |-> 0]

CallUpdate(id, n, kk) == [fn |-> "update", vp |-> id, a |-> 8 * n + kk - 1, b |-> 0]

CallChainback(id, n) == [fn |-> "chainback", vp |-> id, a |-> 8 * n, b |-> 0]

\* the calls are made in the order reset, update, chainback
CallsInOrder ==
    /\ pc \in {"dec_unpack", "dec_scale", "dec_init"} => calls = <<>>
    /\ pc = "dec_update" => calls = <<CallInit(q.vp)>>
    /\ pc = "dec_chainback" => calls = <<CallInit(q.vp), CallUpdate(q.vp, dec_len, q.K)>>
    /\ DecodeReturned => calls = <<CallInit(q.vp), CallUpdate(q.vp, dec_len, q.K),
                                   CallChainback(q.vp, dec_len)>>

\* on an allocated decoder the protocol of a decode call is followed
ProtocolWhenSized ==
    /\ CallsInOrder
    /\ (InDecode \/ DecodeReturned) /\ q.vp # NULL =>
          /\ vp_objs[q.vp].live
          /\ vp_objs[q.vp].nbits = 8 * dec_len
          /\ q.num_dec_bytes = dec_len

(***************************************************************************)
(* Properties.                                                             *)
(***************************************************************************)

\* C1: round trip.  Whenever fec_conv_decode is called with the length of
\* the message whose uncorrupted encoding is in the encoded buffer, the call
\* returns and the output buffer holds exactly that message.
C1_RoundTrip ==
    /\ (DecodeReturned /\ dec_len = Len(msg_dec)) => msg_out = msg_dec
    /\ ~(DecodeCrashed /\ dec_len = Len(msg_dec))

\* C2: length law.  After fec_conv_encode of an n-byte message the bit
\* counter before padding is R*(8n + K - 1), the padding bits are zero, the
\* final counter is 8*ceil(R*(8n + K - 1)/8) and the closing assertion held.
C2_LengthLaw ==
    Encoded =>
        LET codebits == q.R * (8 * Len(msg_dec) + q.K - 1)
            total    == 8 * ((codebits + 7) \div 8)
        IN /\ enc_ret.ncode = codebits
           /\ enc_ret.n = total
           /\ msg_enc[total \div 8] % (2^(total - codebits)) = 0
           /\ enc_ret.n = 8 * fec_get_enc_msg_length(q.scheme, Len(msg_dec))
           /\ enc_ret.assert_ok
           /\ fault # "assert"

\* an encode of a non-empty message whose last byte needed padding
C2_Witness ==
    /\ pc = "idle" /\ lastop = "encode"
    /\ Len(msg_dec) >= 1
    /\ enc_ret.n > enc_ret.ncode

\* C3: zero-length message.  Encoding the empty message writes exactly
\* ceil(R*(K-1)/8) bytes; a decode of length 0 never runs on a null decoder
\* or an unsized enc_bits, never crashes, and returns the empty message.
C3_ZeroLength ==
    /\ (Encoded /\ msg_dec = <<>>) =>
          WrittenFrom(msg_enc, 1) = (q.R * (q.K - 1) + 7) \div 8
    /\ (InDecode /\ dec_len = 0) =>
          /\ q.vp # NULL
          /\ q.enc_bits # NULL
          /\ Len(enc_blk) = 8 * q.num_enc_bytes
    /\ ~(DecodeCrashed /\ dec_len = 0)
    /\ (DecodeReturned /\ dec_len = 0) => msg_out = <<>>

\* C4: creating a codec with an unsupported scheme id returns a
\* configuration error, does not terminate the process and leaves no codec
\* record allocated.
C4_CreateError ==
    (lastop = "create" /\ q.scheme \notin Schemes) =>
        /\ create_ret = "ConfigError"
        /\ pc # "exited"
        /\ ~heap.q

\* what fec_conv_decode yields on a codec that is sized for length n: a
\* function of the scheme, the length and the encoded bytes alone
DecodeOracle(fs, n, enc) ==
    LET sc   == SchemeInit(fs)
        syms == [k \in 1..(8 * fec_get_enc_msg_length(fs, n)) |-> SoftBit(UnpackBit(enc, k))]
        rx   == [g \in 1..(8 * n + sc.K - 1) |-> RxGroup(syms, sc.R, g, 1)]
    IN ViterbiDecode(sc, BranchTab(fs), rx, 8 * n)

\* C5: determinism on a reused codec.  Whatever calls came before, an encode
\* leaves in the encoded buffer a function of (scheme, message), and a decode
\* returns and leaves in the output buffer a function of (scheme, length,
\* encoded bytes).
C5_Deterministic ==
    /\ Encoded => msg_enc = EncodeRun(q, msg_dec, FreshEncBuf).out
    /\ ~DecodeCrashed
    /\ DecodeReturned => msg_out = DecodeOracle(q.scheme, dec_len, msg_enc)

\* C6: resource release.  No Viterbi decoder is deleted twice or used after
\* deletion, and after fec_conv_destroy neither the codec record, nor a
\* Viterbi decoder, nor enc_bits is still allocated.
C6_Released ==
    /\ fault \notin {"double_free", "use_after_free"}
    /\ pc = "destroyed" =>
          /\ ~heap.q
          /\ \A id \in VpIds : ~vp_objs[id].live
          /\ ~heap.enc_bits

\* C7: lazy resizing.  Right after the sizing step of a decode call, the
\* Viterbi decoder was created and enc_bits reallocated exactly when the
\* requested length differs from the previous num_dec_bytes, a decoder was
\* deleted exactly when in addition one existed, and with an unchanged
\* length num_dec_bytes, num_enc_bytes, vp, enc_bits, the decoder objects and
\* the contents of enc_bits are all as they were before the call.
C7_LazyResize ==
    (pc = "dec_unpack" /\ pre.valid) =>
        LET same == dec_len = pre.q.num_dec_bytes
        IN /\ sizing.created <=> ~same
           /\ sizing.realloced <=> ~same
           /\ sizing.deleted <=> (~same /\ pre.q.vp # NULL)
           /\ same => /\ q = pre.q
                      /\ enc_blk = pre.enc_blk
                      /\ vp_objs = pre.vp_objs
           /\ ~same => /\ q.num_dec_bytes = dec_len
                       /\ q.vp # NULL
                       /\ vp_objs[q.vp].live
                       /\ vp_objs[q.vp].nbits = 8 * dec_len
                       /\ Len(enc_blk) = 8 * q.num_enc_bytes

\* a decode call of the same non-zero length as the one before it
C7_Witness ==
    /\ pc = "dec_unpack" /\ pre.valid
    /\ dec_len >= 1
    /\ dec_len = pre.q.num_dec_bytes
    /\ pre.q.vp # NULL
    /\ lastop = "decode"

\* C8: encoder bit-exactness.  After fec_conv_encode the encoded buffer
\* equals the reference stream of the message (zero start register, bits
\* most significant first, K-1 flush bits, polynomials in declared order,
\* packed most significant bit first, zero padding), and exactly its first
\* ceil(R*(8n + K - 1)/8) bytes have been written.
C8_BitExact ==
    Encoded =>
        /\ msg_enc = RefTab[<<q.scheme, msg_dec>>]
        /\ WrittenFrom(msg_enc, 1) = (q.R * (8 * Len(msg_dec) + q.K - 1) + 7) \div 8

\* an encode of a message of two different bytes
C8_Witness ==
    /\ pc = "idle" /\ lastop = "encode"
    /\ Len(msg_dec) >= 2
    /\ msg_dec[1] # msg_dec[2]
    /\ \E x \in 1..Len(msg_enc) : msg_enc[x] \notin {0, Unwritten}

\* C9: decoder call protocol.  Every decode call of length n makes, on a
\* live decoder sized for 8n bits, exactly init(0), then update over
\* 8n + K - 1 groups, then chainback of 8n bits from state 0, in that order,
\* and returns.
C9_Protocol ==
    /\ CallsInOrder
    /\ (InDecode \/ DecodeReturned) =>
          /\ q.vp # NULL
          /\ vp_objs[q.vp].live
          /\ vp_objs[q.vp].nbits = 8 * dec_len
          /\ q.num_dec_bytes = dec_len
    /\ ~DecodeCrashed

\* C10: decoder input buffer.  A decode of length >= 1 reaches the Viterbi
\* update, and at that moment enc_bits has exactly 8*num_enc_bytes entries
\* with num_enc_bytes = ceil(R*(8*num_dec_bytes + K - 1)/8) for the length of
\* this call, the update reads no more than that, and every entry is
\* FEC_SOFTBIT_1 where the received bit is 1 and FEC_SOFTBIT_0 where it is 0.
C10_EncBitsBounds ==
    /\ ~(DecodeCrashed /\ dec_len >= 1)
    /\ (pc = "dec_update" /\ dec_len >= 1) =>
          /\ q.num_dec_bytes = dec_len
          /\ q.num_enc_bytes = (q.R * (8 * q.num_dec_bytes + q.K - 1) + 7) \div 8
          /\ q.enc_bits # NULL /\ heap.enc_bits
          /\ Len(enc_blk) = 8 * q.num_enc_bytes
          /\ q.R * (8 * q.num_dec_bytes + q.K - 1) <= Len(enc_blk)
          /\ \A k \in 1..Len(enc_blk) :
                enc_blk[k] = IF RefInBit(msg_enc, k) = 1 THEN FEC_SOFTBIT_1
                             ELSE FEC_SOFTBIT_0

\* a decode of two bytes about to run the update on symbols of both kinds
C10_Witness ==
    /\ pc = "dec_update"
    /\ dec_len = 2
    /\ \E k \in 1..Len(enc_blk) : enc_blk[k] = FEC_SOFTBIT_1
    /\ \E k \in 1..Len(enc_blk) : enc_blk[k] = FEC_SOFTBIT_0

====
